---- MODULE Spec2Model ----
(***************************************************************************)
(* RouteIt-Framework VLAN registry (route_it/src/rti_vlan.c), built with   *)
(* RTI_ENABLE_DYNAMIC_VLAN == 1.                                           *)
(*                                                                         *)
(* Memory is a set of regions of record slots: "S" is the linker section   *)
(* .rti_vlan (the static table), "A" is a zero-initialised buffer the      *)
(* caller owns and hands to Setup / ForceSet.  A pointer is a region and a *)
(* byte offset into it.  A record (a slot's content) is NULL, a reference  *)
(* to a descriptor, or WILD: a bit pattern that is no valid reference.     *)
(*                                                                         *)
(* The target is a 16-bit one: sizeof(RTI_VLAN_RECORD) is 2 and size_t     *)
(* arithmetic is modulo 2^16.                                              *)
(*                                                                         *)
(* A call whose execution reads or writes memory outside the region its    *)
(* pointer belongs to, or dereferences NULL or WILD, has no defined result:*)
(* it is recorded with ret = RTI_UNDEFINED and the program is stopped.     *)
(***************************************************************************)
EXTENDS Integers, Sequences, FiniteSets, TLC

(* ------------------------------ bounds -------------------------------- *)

\* the linker section holds no record or MaxStatic records
MaxStatic == 1
\* number of record slots of the caller's buffer
BufSlots == 3
\* how often a behaviour moves the window (successful Setup / ForceSet calls)
MaxRepoint == 2

(* ------------------------- program constants -------------------------- *)

\* sizeof(RTI_VLAN_RECORD): a pointer
RecordSize == 2
\* size_t values are taken modulo SizeMod
SizeMod == 65536

RTI_OK == 0
RTI_ERR_INVALID_PARAM == 1
RTI_ERR_NOT_SUPPORTED == 2
RTI_ERR_FAILED == 3
RTI_ERR_OBJECT_EMPTY == 4
RTI_ERR_VLANTABLE_TOO_SHORT == 5
RTI_ERR_VLANTABLE_OVERFLOW == 6
RTI_ERR_VLANTABLE_NOT_SETUP == 7
\* no enumerator: the call's behaviour was undefined
RTI_UNDEFINED == 99

\* record values that are no descriptor reference
NULL == 0
WILD == -1

(* ----------------------------- descriptors ---------------------------- *)

\* references 1..MaxStatic are the descriptors RTI_VLAN_REGISTER_STATIC_WITH_ID
\* places in the section; the others are descriptors a caller registers
StaticRefs == 1..MaxStatic
DynRefs == {MaxStatic + 1, MaxStatic + 2}
Refs == StaticRefs \cup DynRefs

\* the id field: static VLANk has id k, the first dynamic descriptor a fresh
\* id, the second one the id 1 again (the tests' {&mock_vlan_ifx, "test", 1})
DescId(ref) ==
    IF ref \in StaticRefs THEN ref
    ELSE IF ref = MaxStatic + 1 THEN MaxStatic + 1
    ELSE 1

\* RTI_VLAN_DESC: ifx and name are pointers, distinct per descriptor
RTI_VLAN_DESC(ref) == [ifx |-> ref, name |-> ref, id |-> DescId(ref)]

\* the caller's output variable before Select wrote it
NoDesc == [ifx |-> 0, name |-> 0, id |-> 0]

\* ids a caller asks for; MaxStatic + 2 is carried by no descriptor
Ids == 1..(MaxStatic + 2)

(* ------------------------------- memory -------------------------------- *)

Buffers == {"A"}
Regions == {"S"} \cup Buffers

NullPtr == [reg |-> "NULL", off |-> 0]
Ptr(reg, off) == [reg |-> reg, off |-> off]

VARIABLES
    staticN,                     \* records the linker placed in .rti_vlan
    mem,                         \* region -> slot index -> record
    g_RTI_vlanTableStartPtr,
    g_RTI_vlanTableEndPtr,
    g_RTI_vlanRecordUsedCnt,
    last,                        \* the last call: its arguments and results
    stopped,                     \* a call had undefined behaviour
    repoints,                    \* calls that moved the window so far
    setups,                      \* Setup calls that returned RTI_OK so far
    setupRun,                    \* a Setup call in progress: its position and locals
    registerRun                  \* caller -> a Register call in progress

vars == <<staticN, mem, g_RTI_vlanTableStartPtr, g_RTI_vlanTableEndPtr,
          g_RTI_vlanRecordUsedCnt, last, stopped, repoints, setups,
          setupRun, registerRun>>

\* slots that belong to a region
Alloc(reg) == IF reg = "S" THEN staticN ELSE BufSlots

\* __start_rti_vlan and __end_rti_vlan
StaticStart == Ptr("S", 0)
StaticEnd == Ptr("S", RecordSize * staticN)

\* RTI_VLAN_VLANTABLE_SIZE(RECORD_COUNT), in size_t
RTI_VLAN_VLANTABLE_SIZE(cnt) == (RecordSize * cnt) % SizeMod

\* RTI_VlanGetRecordCount: byte distance / sizeof(record)
RTI_VlanGetRecordCount(recordStart, recordEnd) ==
    ((recordEnd.off - recordStart.off) % SizeMod) \div RecordSize

\* RTI_VlanIsDynamicUninitialized
RTI_VlanIsDynamicUninitialized ==
    g_RTI_vlanTableStartPtr = StaticStart \/ g_RTI_vlanTableEndPtr = StaticEnd

\* the last-call record
Call(op, ptr, size, ref, id, ret, out, cnt) ==
    [op |-> op, ptr |-> ptr, size |-> size, ref |-> ref, id |-> id,
     ret |-> ret, out |-> out, cnt |-> cnt]

\* the execution contexts that can be inside RTI_VlanDynamicRegister at once
Callers == {1, 2}

\* no Setup call is in progress
SetupIdle ==
    [pc |-> "idle", start |-> NullPtr, sizeBytes |-> 0, recordCntOld |-> 0,
     oldStart |-> NullPtr]

\* the caller is not inside Register
RegisterIdle == [pc |-> "idle", vlanDesc |-> NULL, index |-> 0, ret |-> RTI_OK]

Init ==
    /\ staticN \in {0, MaxStatic}
    /\ mem = [r \in Regions |->
                IF r = "S" THEN [i \in 0..(staticN - 1) |-> i + 1]
                ELSE [i \in 0..(BufSlots - 1) |-> NULL]]
    /\ g_RTI_vlanTableStartPtr = StaticStart
    /\ g_RTI_vlanTableEndPtr = StaticEnd
    /\ g_RTI_vlanRecordUsedCnt = 0
    /\ last = Call("boot", NullPtr, 0, NULL, 0, RTI_OK, NoDesc, 0)
    /\ stopped = FALSE
    /\ repoints = 0
    /\ setups = 0
    /\ setupRun = SetupIdle
    /\ registerRun = [p \in Callers |-> RegisterIdle]

(* ------------------------- RTIPriv_VlanSelect -------------------------- *)

\* the scan's verdicts that are no slot index
NotFound == -1
Undefined == -2

\* a scan that gives up at the first empty slot instead of skipping it
RECURSIVE SelectScanStopsAtNull(_, _)
SelectScanStopsAtNull(itr, vlanId) ==
    LET reg == g_RTI_vlanTableStartPtr.reg
        i == itr \div RecordSize
    IN  IF ~(itr < g_RTI_vlanTableEndPtr.off) THEN NotFound
        ELSE IF i >= Alloc(reg) THEN Undefined
        ELSE IF mem[reg][i] = NULL THEN NotFound
        ELSE IF mem[reg][i] = WILD THEN Undefined
        ELSE IF DescId(mem[reg][i]) = vlanId THEN i
        ELSE SelectScanStopsAtNull(itr + RecordSize, vlanId)

\* a scan that keeps the last matching slot instead of stopping at the first
RECURSIVE SelectScanLastMatch(_, _)
SelectScanLastMatch(itr, vlanId) ==
    LET reg == g_RTI_vlanTableStartPtr.reg
        i == itr \div RecordSize
        rest == SelectScanLastMatch(itr + RecordSize, vlanId)
    IN  IF ~(itr < g_RTI_vlanTableEndPtr.off) THEN NotFound
        ELSE IF i >= Alloc(reg) THEN Undefined
        ELSE IF mem[reg][i] = NULL THEN rest
        ELSE IF mem[reg][i] = WILD THEN Undefined
        ELSE IF DescId(mem[reg][i]) = vlanId /\ rest < 0 THEN i
        ELSE rest

\* the loop of RTIPriv_VlanSelect from byte offset itr of the window on: the
\* slot index of the first match, NotFound, or Undefined when the loop reads
\* a slot outside the region or dereferences a WILD record
RECURSIVE SelectScan(_, _)
SelectScan(itr, vlanId) ==
    LET reg == g_RTI_vlanTableStartPtr.reg
        i == itr \div RecordSize
    IN  IF ~(itr < g_RTI_vlanTableEndPtr.off) THEN NotFound
        ELSE IF i >= Alloc(reg) THEN Undefined
        ELSE IF mem[reg][i] = NULL THEN SelectScan(itr + RecordSize, vlanId)
        ELSE IF mem[reg][i] = WILD THEN Undefined
        ELSE IF DescId(mem[reg][i]) = vlanId THEN i
        ELSE SelectScan(itr + RecordSize, vlanId)

\* where itr stands when the loop ran to its end: the first slot boundary at
\* or after the window's end
ScanEnd == ((g_RTI_vlanTableEndPtr.off + RecordSize - 1) \div RecordSize) * RecordSize

\* RTIPriv_VlanSelect without its test for an empty table
SelectWithoutEmptyTest(vlanId) ==
    LET found == SelectScan(g_RTI_vlanTableStartPtr.off, vlanId)
    IN  IF found = Undefined
        THEN [ret |-> RTI_UNDEFINED, out |-> NoDesc]
        ELSE IF found = NotFound
        THEN [ret |-> IF ScanEnd = g_RTI_vlanTableEndPtr.off
                      THEN RTI_ERR_INVALID_PARAM ELSE RTI_OK,
              out |-> NoDesc]
        ELSE [ret |-> RTI_OK,
              out |-> RTI_VLAN_DESC(mem[g_RTI_vlanTableStartPtr.reg][found])]

\* an RTIPriv_VlanSelect that copies the first record into *descOut before it
\* compares any id, so that a failing call leaves a descriptor behind
SelectCopiesBeforeCompare(vlanId) ==
    LET found == SelectScan(g_RTI_vlanTableStartPtr.off, vlanId)
        reg == g_RTI_vlanTableStartPtr.reg
    IN  IF g_RTI_vlanTableStartPtr = g_RTI_vlanTableEndPtr
        THEN [ret |-> RTI_ERR_OBJECT_EMPTY, out |-> NoDesc]
        ELSE IF found = Undefined
        THEN [ret |-> RTI_UNDEFINED, out |-> NoDesc]
        ELSE IF found = NotFound
        THEN [ret |-> IF ScanEnd = g_RTI_vlanTableEndPtr.off
                      THEN RTI_ERR_INVALID_PARAM ELSE RTI_OK,
              out |-> IF 0 < Alloc(reg) /\ mem[reg][0] \in Refs
                      THEN RTI_VLAN_DESC(mem[reg][0]) ELSE NoDesc]
        ELSE [ret |-> RTI_OK, out |-> RTI_VLAN_DESC(mem[reg][found])]

\* RTIPriv_VlanSelect(vlanId, descOut): the code returned and *descOut
RTIPriv_VlanSelect(vlanId) ==
    LET found == SelectScan(g_RTI_vlanTableStartPtr.off, vlanId)
    IN  IF g_RTI_vlanTableStartPtr = g_RTI_vlanTableEndPtr
        THEN [ret |-> RTI_ERR_OBJECT_EMPTY, out |-> NoDesc]
        ELSE IF found = Undefined
        THEN [ret |-> RTI_UNDEFINED, out |-> NoDesc]
        ELSE IF found = NotFound
        THEN [ret |-> IF ScanEnd = g_RTI_vlanTableEndPtr.off
                      THEN RTI_ERR_INVALID_PARAM ELSE RTI_OK,
              out |-> NoDesc]
        ELSE [ret |-> RTI_OK,
              out |-> RTI_VLAN_DESC(mem[g_RTI_vlanTableStartPtr.reg][found])]

Select(vlanId) ==
    /\ ~stopped
    /\ LET r == RTIPriv_VlanSelect(vlanId)
       IN  /\ last' = Call("Select", NullPtr, 0, NULL, vlanId, r.ret, r.out, 0)
           /\ stopped' = (r.ret = RTI_UNDEFINED)
    /\ UNCHANGED <<setupRun, registerRun>>
    /\ UNCHANGED <<setups, staticN, mem, g_RTI_vlanTableStartPtr, g_RTI_vlanTableEndPtr,
                   g_RTI_vlanRecordUsedCnt, repoints>>

(* ------------------------ RTI_VlanDynamicSetup ------------------------- *)

\* a recordCntOld that never counts the static table's records
SetupCountWithoutStatic == g_RTI_vlanRecordUsedCnt

\* recordCntOld of RTI_VlanDynamicSetup
SetupRecordCntOld ==
    IF RTI_VlanIsDynamicUninitialized
    THEN RTI_VlanGetRecordCount(StaticStart, StaticEnd)
    ELSE g_RTI_vlanRecordUsedCnt

\* what memset(start, 0, sizeBytes) can leave in a slot it covers only in
\* part: NULL stays NULL, another record keeps its bits only if the zeroed
\* bytes were zero already
PartialZero(rec) == IF rec = NULL THEN {NULL} ELSE {WILD, rec}

\* memset(start, 0, sizeBytes) then memcpy(start, g_RTI_vlanTableStartPtr,
\* RTI_VLAN_VLANTABLE_SIZE(recordCntOld)); partial is the content left in the
\* slot the memset covers in part
SetupMemory(start, sizeBytes, recordCntOld, partial) ==
    LET full == sizeBytes \div RecordSize
        zeroed == [mem EXCEPT ![start.reg] =
                     [i \in DOMAIN mem[start.reg] |->
                        IF i < full THEN NULL
                        ELSE IF i = full /\ sizeBytes % RecordSize # 0 THEN partial
                        ELSE mem[start.reg][i]]]
        src == g_RTI_vlanTableStartPtr.reg
    IN  [zeroed EXCEPT ![start.reg] =
           [i \in DOMAIN zeroed[start.reg] |->
              IF i < recordCntOld THEN zeroed[src][i] ELSE zeroed[start.reg][i]]]

\* sizes a caller passes with a buffer: up to the bytes the buffer has
BufferSizes(reg) == 0..(RecordSize * Alloc(reg))

\* sizes a caller computes with RTI_VLAN_VLANTABLE_SIZE for a table of the
\* region, as the save / restore of the window does
TableSizes(reg) == {RTI_VLAN_VLANTABLE_SIZE(k) : k \in 0..Alloc(reg)}

Setup(start, sizeBytes) ==
    /\ ~stopped
    /\ LET recordCntOld == SetupRecordCntOld
           full == sizeBytes \div RecordSize
       IN  IF start = NullPtr
           THEN /\ last' = Call("Setup", start, sizeBytes, NULL, 0,
                                RTI_ERR_INVALID_PARAM, NoDesc, 0)
                /\ UNCHANGED <<mem, g_RTI_vlanTableStartPtr, g_RTI_vlanTableEndPtr,
                               g_RTI_vlanRecordUsedCnt, stopped, repoints, setups>>
           ELSE IF sizeBytes < RTI_VLAN_VLANTABLE_SIZE(recordCntOld)
           THEN /\ last' = Call("Setup", start, sizeBytes, NULL, 0,
                                RTI_ERR_VLANTABLE_TOO_SHORT, NoDesc, 0)
                /\ UNCHANGED <<mem, g_RTI_vlanTableStartPtr, g_RTI_vlanTableEndPtr,
                               g_RTI_vlanRecordUsedCnt, stopped, repoints, setups>>
           ELSE IF recordCntOld > Alloc(g_RTI_vlanTableStartPtr.reg)
           THEN \* the memcpy reads past the old table's region
                /\ last' = Call("Setup", start, sizeBytes, NULL, 0,
                                RTI_UNDEFINED, NoDesc, 0)
                /\ stopped' = TRUE
                /\ UNCHANGED <<mem, g_RTI_vlanTableStartPtr, g_RTI_vlanTableEndPtr,
                               g_RTI_vlanRecordUsedCnt, repoints, setups>>
           ELSE /\ \E partial \in
                        (IF sizeBytes % RecordSize # 0
                         THEN PartialZero(mem[start.reg][full]) ELSE {NULL}) :
                      mem' = SetupMemory(start, sizeBytes, recordCntOld, partial)
                /\ g_RTI_vlanTableStartPtr' = start
                /\ g_RTI_vlanTableEndPtr' = Ptr(start.reg, start.off + sizeBytes)
                /\ g_RTI_vlanRecordUsedCnt' = recordCntOld
                /\ last' = Call("Setup", start, sizeBytes, NULL, 0, RTI_OK, NoDesc, 0)
                /\ repoints < MaxRepoint
                /\ repoints' = repoints + 1
                /\ setups' = setups + 1
                /\ UNCHANGED stopped
    /\ UNCHANGED <<setupRun, registerRun>>
    /\ UNCHANGED staticN

(* ----------------------- RTI_VlanDynamicRegister ----------------------- *)

\* a check that never refuses a full table
RegisterCheckWithoutOverflow(vlanDesc) ==
    IF vlanDesc = NULL THEN RTI_ERR_INVALID_PARAM
    ELSE IF RTI_VlanIsDynamicUninitialized THEN RTI_ERR_VLANTABLE_NOT_SETUP
    ELSE RTI_OK

\* a check that lets one record more in than the window has slots
RegisterCheckOffByOne(vlanDesc) ==
    IF vlanDesc = NULL THEN RTI_ERR_INVALID_PARAM
    ELSE IF g_RTI_vlanRecordUsedCnt >
            RTI_VlanGetRecordCount(g_RTI_vlanTableStartPtr, g_RTI_vlanTableEndPtr)
    THEN RTI_ERR_VLANTABLE_OVERFLOW
    ELSE IF RTI_VlanIsDynamicUninitialized THEN RTI_ERR_VLANTABLE_NOT_SETUP
    ELSE RTI_OK

\* the return code RTI_VlanDynamicRegister decides on before it writes
RegisterCheck(vlanDesc) ==
    IF vlanDesc = NULL THEN RTI_ERR_INVALID_PARAM
    ELSE IF g_RTI_vlanRecordUsedCnt >=
            RTI_VlanGetRecordCount(g_RTI_vlanTableStartPtr, g_RTI_vlanTableEndPtr)
    THEN RTI_ERR_VLANTABLE_OVERFLOW
    ELSE IF RTI_VlanIsDynamicUninitialized THEN RTI_ERR_VLANTABLE_NOT_SETUP
    ELSE RTI_OK

\* a store that always writes the first slot of the window
RegisterStoreAtFirstSlot(vlanDesc) ==
    [mem EXCEPT ![g_RTI_vlanTableStartPtr.reg][0] = vlanDesc]

\* the store of g_RTI_vlanTableStartPtr[g_RTI_vlanRecordUsedCnt++] = vlanDesc
RegisterStore(vlanDesc) ==
    [mem EXCEPT ![g_RTI_vlanTableStartPtr.reg][g_RTI_vlanRecordUsedCnt] = vlanDesc]

Register(vlanDesc) ==
    /\ ~stopped
    /\ LET ret == RegisterCheck(vlanDesc)
           reg == g_RTI_vlanTableStartPtr.reg
       IN  IF ret # RTI_OK
           THEN /\ last' = Call("Register", NullPtr, 0, vlanDesc, 0, ret, NoDesc, 0)
                /\ UNCHANGED <<mem, g_RTI_vlanRecordUsedCnt, stopped>>
           ELSE IF g_RTI_vlanRecordUsedCnt >= Alloc(reg)
           THEN \* the slot written lies outside the region
                /\ last' = Call("Register", NullPtr, 0, vlanDesc, 0,
                                RTI_UNDEFINED, NoDesc, 0)
                /\ stopped' = TRUE
                /\ UNCHANGED <<mem, g_RTI_vlanRecordUsedCnt>>
           ELSE /\ mem' = RegisterStore(vlanDesc)
                /\ g_RTI_vlanRecordUsedCnt' = (g_RTI_vlanRecordUsedCnt + 1) % SizeMod
                /\ last' = Call("Register", NullPtr, 0, vlanDesc, 0, RTI_OK, NoDesc, 0)
                /\ UNCHANGED stopped
    /\ UNCHANGED <<setupRun, registerRun>>
    /\ UNCHANGED <<setups, staticN, g_RTI_vlanTableStartPtr, g_RTI_vlanTableEndPtr, repoints>>

(* ---------------------- RTI_VlanDynamicIsRegister ---------------------- *)

\* the loop of RTI_VlanDynamicIsRegister from byte offset itr on: the slot
\* index of the first match, NotFound, or Undefined when it reads a slot
\* outside the region or reads the id through a NULL or WILD record
RECURSIVE IsRegisterScan(_, _)
IsRegisterScan(itr, id) ==
    LET reg == g_RTI_vlanTableStartPtr.reg
        i == itr \div RecordSize
    IN  IF ~(itr < g_RTI_vlanTableEndPtr.off) THEN NotFound
        ELSE IF i >= Alloc(reg) THEN Undefined
        ELSE IF mem[reg][i] \in {NULL, WILD} THEN Undefined
        ELSE IF DescId(mem[reg][i]) = id THEN i
        ELSE IsRegisterScan(itr + RecordSize, id)

\* RTI_VlanDynamicIsRegister(vlan): the code returned
RTI_VlanDynamicIsRegister(vlan) ==
    LET found == IsRegisterScan(g_RTI_vlanTableStartPtr.off, DescId(vlan))
    IN  IF vlan = NULL THEN RTI_ERR_INVALID_PARAM
        ELSE IF found = Undefined THEN RTI_UNDEFINED
        ELSE IF found = NotFound THEN RTI_ERR_INVALID_PARAM
        ELSE RTI_OK

IsRegister(vlan) ==
    /\ ~stopped
    /\ LET ret == RTI_VlanDynamicIsRegister(vlan)
       IN  /\ last' = Call("IsRegister", NullPtr, 0, vlan, 0, ret, NoDesc, 0)
           /\ stopped' = (ret = RTI_UNDEFINED)
    /\ UNCHANGED <<setupRun, registerRun>>
    /\ UNCHANGED <<setups, staticN, mem, g_RTI_vlanTableStartPtr, g_RTI_vlanTableEndPtr,
                   g_RTI_vlanRecordUsedCnt, repoints>>

(* ------------------- RTI_VlanDynamicGet{Free,All}Count ------------------ *)

\* the caller's size_t variable the count queries write
CountVar == Ptr("count", 0)

\* RTI_VlanDynamicGetFreeCount(freeRecord): the code returned and *freeRecord
RTI_VlanDynamicGetFreeCount(freeRecord) ==
    IF freeRecord = NullPtr THEN [ret |-> RTI_ERR_INVALID_PARAM, cnt |-> 0]
    ELSE IF RTI_VlanIsDynamicUninitialized
    THEN [ret |-> RTI_ERR_VLANTABLE_NOT_SETUP, cnt |-> 0]
    ELSE [ret |-> RTI_OK,
          cnt |-> (RTI_VlanGetRecordCount(g_RTI_vlanTableStartPtr, g_RTI_vlanTableEndPtr)
                   - g_RTI_vlanRecordUsedCnt) % SizeMod]

\* RTI_VlanDynamicGetAllCount(allRecordCount)
RTI_VlanDynamicGetAllCount(allRecordCount) ==
    IF allRecordCount = NullPtr THEN [ret |-> RTI_ERR_INVALID_PARAM, cnt |-> 0]
    ELSE IF RTI_VlanIsDynamicUninitialized
    THEN [ret |-> RTI_ERR_VLANTABLE_NOT_SETUP, cnt |-> 0]
    ELSE [ret |-> RTI_OK,
          cnt |-> RTI_VlanGetRecordCount(g_RTI_vlanTableStartPtr, g_RTI_vlanTableEndPtr)]

GetFreeCount(freeRecord) ==
    /\ ~stopped
    /\ LET r == RTI_VlanDynamicGetFreeCount(freeRecord)
       IN  last' = Call("GetFreeCount", freeRecord, 0, NULL, 0, r.ret, NoDesc, r.cnt)
    /\ UNCHANGED <<setupRun, registerRun>>
    /\ UNCHANGED <<setups, staticN, mem, g_RTI_vlanTableStartPtr, g_RTI_vlanTableEndPtr,
                   g_RTI_vlanRecordUsedCnt, stopped, repoints>>

GetAllCount(allRecordCount) ==
    /\ ~stopped
    /\ LET r == RTI_VlanDynamicGetAllCount(allRecordCount)
       IN  last' = Call("GetAllCount", allRecordCount, 0, NULL, 0, r.ret, NoDesc, r.cnt)
    /\ UNCHANGED <<setupRun, registerRun>>
    /\ UNCHANGED <<setups, staticN, mem, g_RTI_vlanTableStartPtr, g_RTI_vlanTableEndPtr,
                   g_RTI_vlanRecordUsedCnt, stopped, repoints>>

(* ----------------------- RTIDFX_VlanTableForceSet ----------------------- *)

\* start + sizeBytes with start an RTI_VLAN_RECORD*: the pointer moves by
\* sizeBytes records
ForceSetEnd(start, sizeBytes) == Ptr(start.reg, start.off + sizeBytes * RecordSize)

\* a ForceSet that also starts the new window with a used count of zero
ForceSetResetsCount(start, sizeBytes) ==
    /\ ~stopped
    /\ IF start = NullPtr
       THEN /\ last' = Call("ForceSet", start, sizeBytes, NULL, 0,
                            RTI_ERR_INVALID_PARAM, NoDesc, 0)
            /\ UNCHANGED <<g_RTI_vlanTableStartPtr, g_RTI_vlanTableEndPtr,
                           g_RTI_vlanRecordUsedCnt, repoints>>
       ELSE /\ repoints < MaxRepoint
            /\ repoints' = repoints + 1
            /\ g_RTI_vlanTableStartPtr' = start
            /\ g_RTI_vlanTableEndPtr' = ForceSetEnd(start, sizeBytes)
            /\ g_RTI_vlanRecordUsedCnt' = 0
            /\ last' = Call("ForceSet", start, sizeBytes, NULL, 0, RTI_OK, NoDesc, 0)
    /\ UNCHANGED <<setupRun, registerRun>>
    /\ UNCHANGED <<setups, staticN, mem, stopped>>

\* a ForceSet that assigns the window before it tests start against NULL
ForceSetBeforeNullTest(start, sizeBytes) ==
    /\ ~stopped
    /\ repoints < MaxRepoint
    /\ repoints' = repoints + 1
    /\ g_RTI_vlanTableStartPtr' = start
    /\ g_RTI_vlanTableEndPtr' = ForceSetEnd(start, sizeBytes)
    /\ last' = Call("ForceSet", start, sizeBytes, NULL, 0,
                    IF start = NullPtr THEN RTI_ERR_INVALID_PARAM ELSE RTI_OK,
                    NoDesc, 0)
    /\ UNCHANGED <<setupRun, registerRun>>
    /\ UNCHANGED <<setups, staticN, mem, g_RTI_vlanRecordUsedCnt, stopped>>

ForceSet(start, sizeBytes) ==
    /\ ~stopped
    /\ IF start = NullPtr
       THEN /\ last' = Call("ForceSet", start, sizeBytes, NULL, 0,
                            RTI_ERR_INVALID_PARAM, NoDesc, 0)
            /\ UNCHANGED <<g_RTI_vlanTableStartPtr, g_RTI_vlanTableEndPtr, repoints>>
       ELSE /\ repoints < MaxRepoint
            /\ repoints' = repoints + 1
            /\ g_RTI_vlanTableStartPtr' = start
            /\ g_RTI_vlanTableEndPtr' = ForceSetEnd(start, sizeBytes)
            /\ last' = Call("ForceSet", start, sizeBytes, NULL, 0, RTI_OK, NoDesc, 0)
    /\ UNCHANGED <<setupRun, registerRun>>
    /\ UNCHANGED <<setups, staticN, mem, g_RTI_vlanRecordUsedCnt, stopped>>

(* ---------------------- RTIDFX_VlanTableUnregister ---------------------- *)

\* the loop of RTIDFX_VlanTableUnregister from byte offset itr on: the slot
\* index of the first match, NotFound, or Undefined when it reads a slot
\* outside the region or reads the id through a NULL or WILD record
RECURSIVE UnregisterScan(_, _)
UnregisterScan(itr, id) ==
    LET reg == g_RTI_vlanTableStartPtr.reg
        i == itr \div RecordSize
    IN  IF ~(itr < g_RTI_vlanTableEndPtr.off) THEN NotFound
        ELSE IF i >= Alloc(reg) THEN Undefined
        ELSE IF mem[reg][i] \in {NULL, WILD} THEN Undefined
        ELSE IF DescId(mem[reg][i]) = id THEN i
        ELSE UnregisterScan(itr + RecordSize, id)

\* memmove(itr, itr + 1, moved * sizeof(RTI_VLAN_RECORD)) at slot i
UnregisterMove(i, moved) ==
    LET reg == g_RTI_vlanTableStartPtr.reg
    IN  [mem EXCEPT ![reg] =
           [j \in DOMAIN mem[reg] |->
              IF j >= i /\ j < i + moved THEN mem[reg][j + 1] ELSE mem[reg][j]]]

Unregister(id) ==
    /\ ~stopped
    /\ LET reg == g_RTI_vlanTableStartPtr.reg
           i == UnregisterScan(g_RTI_vlanTableStartPtr.off, id)
           \* end - itr - 1, a count of records
           moved == ((g_RTI_vlanTableEndPtr.off - i * RecordSize) \div RecordSize) - 1
           usedCnt == (g_RTI_vlanRecordUsedCnt - 1) % SizeMod
       IN  IF i = NotFound
           THEN /\ last' = Call("Unregister", NullPtr, 0, NULL, id,
                                RTI_ERR_INVALID_PARAM, NoDesc, 0)
                /\ UNCHANGED <<mem, g_RTI_vlanRecordUsedCnt, stopped>>
           ELSE IF i = Undefined \/ moved < 0 \/ i + moved >= Alloc(reg)
           THEN \* the scan or the memmove leaves the region
                /\ last' = Call("Unregister", NullPtr, 0, NULL, id,
                                RTI_UNDEFINED, NoDesc, 0)
                /\ stopped' = TRUE
                /\ UNCHANGED <<mem, g_RTI_vlanRecordUsedCnt>>
           ELSE IF usedCnt >= Alloc(reg)
           THEN \* the slot reset to NULL lies outside the region
                /\ mem' = UnregisterMove(i, moved)
                /\ g_RTI_vlanRecordUsedCnt' = usedCnt
                /\ last' = Call("Unregister", NullPtr, 0, NULL, id,
                                RTI_UNDEFINED, NoDesc, 0)
                /\ stopped' = TRUE
           ELSE /\ mem' = [UnregisterMove(i, moved) EXCEPT ![reg][usedCnt] = NULL]
                /\ g_RTI_vlanRecordUsedCnt' = usedCnt
                /\ last' = Call("Unregister", NullPtr, 0, NULL, id, RTI_OK, NoDesc, 0)
                /\ UNCHANGED stopped
    /\ UNCHANGED <<setupRun, registerRun>>
    /\ UNCHANGED <<setups, staticN, g_RTI_vlanTableStartPtr, g_RTI_vlanTableEndPtr, repoints>>

(* ---------------------------- specification ---------------------------- *)

\* the table addresses a caller passes: none, the section, or a buffer
Starts == {NullPtr} \cup {Ptr(r, 0) : r \in Regions}

Next ==
    \/ \E vlanId \in Ids : Select(vlanId)
    \/ \E start \in Starts :
         \E sizeBytes \in (IF start = NullPtr THEN {0} ELSE BufferSizes(start.reg)) :
            Setup(start, sizeBytes)
    \/ \E vlanDesc \in DynRefs \cup {NULL} : Register(vlanDesc)
    \/ \E vlan \in DynRefs \cup {NULL} : IsRegister(vlan)
    \/ \E p \in {NullPtr, CountVar} : GetFreeCount(p)
    \/ \E p \in {NullPtr, CountVar} : GetAllCount(p)
    \/ \E start \in Starts :
         \E sizeBytes \in (IF start = NullPtr THEN {0} ELSE TableSizes(start.reg)) :
            ForceSet(start, sizeBytes)
    \/ \E id \in Ids : Unregister(id)

Spec == Init /\ [][Next]_vars

(* ------------------------------- claims -------------------------------- *)

\* the number of whole slots of the active window
WindowSlots == (g_RTI_vlanTableEndPtr.off - g_RTI_vlanTableStartPtr.off) \div RecordSize

\* slot i of the active window holds a reference to a descriptor
Occupied(i) ==
    /\ i \in 0..(WindowSlots - 1)
    /\ i < Alloc(g_RTI_vlanTableStartPtr.reg)
    /\ mem[g_RTI_vlanTableStartPtr.reg][i] \in Refs

\* the record in slot i of the active window
WindowRecord(i) == mem[g_RTI_vlanTableStartPtr.reg][i]

\* some occupied slot of the active window carries the id
Present(id) == \E i \in 0..(WindowSlots - 1) : Occupied(i) /\ DescId(WindowRecord(i)) = id

\* the dynamic window is uninitialized: it is identical to the static window
DynamicWindowUninitialized ==
    g_RTI_vlanTableStartPtr = StaticStart /\ g_RTI_vlanTableEndPtr = StaticEnd

\* a caller buffer is installed as the dynamic table
DynamicTableActive == g_RTI_vlanTableStartPtr.reg \in Buffers

\* C1: in every reachable state whose active window has at least one slot,
\* Select(id) returns RTI_OK with all fields of a descriptor of that id when an
\* occupied slot of the window carries the id, and RTI_ERR_INVALID_PARAM
\* otherwise.
C1_SelectFindsExactlyPresentIds ==
    (last.op = "Select" /\ WindowSlots >= 1) =>
        IF Present(last.id)
        THEN /\ last.ret = RTI_OK
             /\ \E i \in 0..(WindowSlots - 1) :
                    /\ Occupied(i)
                    /\ DescId(WindowRecord(i)) = last.id
                    /\ last.out = RTI_VLAN_DESC(WindowRecord(i))
        ELSE last.ret = RTI_ERR_INVALID_PARAM

\* C2: whenever the active window has zero slots (start == end), static or
\* dynamic, Select(id) returns RTI_ERR_OBJECT_EMPTY for every id and reads no
\* slot (the output is not written, the call is defined).
C2_SelectOnEmptyWindow ==
    (last.op = "Select" /\ g_RTI_vlanTableStartPtr = g_RTI_vlanTableEndPtr) =>
        /\ last.ret = RTI_ERR_OBJECT_EMPTY
        /\ last.out = NoDesc
        /\ ~stopped

\* C2 witness: a Select on a dynamic table that Setup installed with size 0
C2_Witness ==
    /\ last.op = "Select"
    /\ DynamicTableActive
    /\ g_RTI_vlanTableStartPtr = g_RTI_vlanTableEndPtr
    /\ last.ret = RTI_ERR_OBJECT_EMPTY

\* what an immediately following Select(id) returns in this state
SelectNow(id) == RTIPriv_VlanSelect(id)

RegisteredSlot == g_RTI_vlanRecordUsedCnt - 1

\* an occupied slot below the registered one already carries the id
EarlierSameId(id) ==
    \E i \in 0..(RegisteredSlot - 1) : Occupied(i) /\ DescId(WindowRecord(i)) = id

\* every slot below the registered one is empty or references a descriptor
\* (no record was damaged by a Setup whose sizeBytes ended inside it)
IntactBelow ==
    \A i \in 0..(RegisteredSlot - 1) : WindowRecord(i) \in Refs \cup {NULL}

OldUsedCount ==
    IF DynamicWindowUninitialized THEN staticN ELSE g_RTI_vlanRecordUsedCnt

\* what GetFreeCount / GetAllCount called in this state return
FreeNow == RTI_VlanDynamicGetFreeCount(CountVar)
AllNow == RTI_VlanDynamicGetAllCount(CountVar)

\* the capacity of the active window
Capacity == RTI_VlanGetRecordCount(g_RTI_vlanTableStartPtr, g_RTI_vlanTableEndPtr)

\* Select resolves the id: it returns RTI_OK with a descriptor of that id
Resolves(id) == SelectNow(id).ret = RTI_OK /\ SelectNow(id).out.id = id

\* C4: every Setup that returns RTI_OK for a caller buffer, called while the
\* window is the static one (first Setup) or a dynamic one (repeated Setup,
\* in place included), leaves the first oldUsedCount slots of the new window
\* equal to those of the previous window, sets usedCount to oldUsedCount, and
\* every id Select resolved before resolves to the same descriptor after.
C4_SetupPreservesRecords ==
    [][(/\ last'.op = "Setup"
        /\ last'.ret = RTI_OK
        /\ last'.ptr.reg \in Buffers
        /\ (DynamicWindowUninitialized \/ DynamicTableActive))
       => /\ \A i \in 0..(OldUsedCount - 1) :
                mem'[last'.ptr.reg][i] = mem[g_RTI_vlanTableStartPtr.reg][i]
          /\ g_RTI_vlanRecordUsedCnt' = OldUsedCount
          /\ \A id \in Ids : Resolves(id) => SelectNow(id)' = SelectNow(id)]_vars

\* C5: Setup with a non-null start returns RTI_ERR_VLANTABLE_TOO_SHORT exactly
\* when sizeBytes < oldUsedCount * recordSize, and then the window, usedCount
\* and every table slot are unchanged.
C5_SetupTooShortExactly ==
    [][(last'.op = "Setup" /\ last'.ptr # NullPtr)
       => /\ (last'.ret = RTI_ERR_VLANTABLE_TOO_SHORT)
                <=> (last'.size < OldUsedCount * RecordSize)
          /\ (last'.ret = RTI_ERR_VLANTABLE_TOO_SHORT)
                => UNCHANGED <<mem, g_RTI_vlanTableStartPtr, g_RTI_vlanTableEndPtr,
                               g_RTI_vlanRecordUsedCnt>>]_vars

\* the capacity the last Setup call's sizeBytes gives: floor(sizeBytes / recordSize)
SetupCapacity == last.size \div RecordSize

\* C6 as stated: after the first successful Setup(buf, sizeBytes) of a caller
\* buffer on a registry whose static table holds n records, GetAllCount
\* returns RTI_OK with floor(sizeBytes / recordSize) and GetFreeCount returns
\* RTI_OK with that capacity minus n.
C6_Original ==
    (last.op = "Setup" /\ last.ret = RTI_OK /\ setups = 1 /\ last.ptr.reg \in Buffers) =>
        /\ AllNow = [ret |-> RTI_OK, cnt |-> SetupCapacity]
        /\ FreeNow = [ret |-> RTI_OK, cnt |-> SetupCapacity - staticN]

\* C6 amended: the same, for a first successful Setup that no ForceSet
\* preceded (the Setup is the first call that moved the window).
C6_FirstSetupCounts ==
    (/\ last.op = "Setup"
     /\ last.ret = RTI_OK
     /\ setups = 1
     /\ repoints = 1
     /\ last.ptr.reg \in Buffers) =>
        /\ AllNow = [ret |-> RTI_OK, cnt |-> SetupCapacity]
        /\ FreeNow = [ret |-> RTI_OK, cnt |-> SetupCapacity - staticN]

\* C6 witness: the first Setup migrated a non-empty static table into a
\* buffer with room left
C6_Witness ==
    /\ last.op = "Setup"
    /\ last.ret = RTI_OK
    /\ setups = 1
    /\ repoints = 1
    /\ last.ptr.reg \in Buffers
    /\ staticN >= 1
    /\ FreeNow = [ret |-> RTI_OK, cnt |-> SetupCapacity - staticN]
    /\ FreeNow.cnt >= 1

\* C7: while a dynamic table is set up, a successful Register decreases the
\* value GetFreeCount reports by exactly 1 and a successful Unregister
\* increases it by exactly 1; both leave what GetAllCount reports unchanged.
C7_CountsMoveByOne ==
    [][DynamicTableActive =>
          /\ (last'.op = "Register" /\ last'.ret = RTI_OK) =>
                /\ FreeNow'.ret = RTI_OK
                /\ FreeNow'.cnt = FreeNow.cnt - 1
                /\ AllNow' = AllNow
          /\ (last'.op = "Unregister" /\ last'.ret = RTI_OK) =>
                /\ FreeNow'.ret = RTI_OK
                /\ FreeNow'.cnt = FreeNow.cnt + 1
                /\ AllNow' = AllNow]_vars

C9_RegisterWhenNotSetup ==
    (last.op = "Register" /\ last.ref # NULL /\ DynamicWindowUninitialized) =>
        last.ret = RTI_ERR_VLANTABLE_NOT_SETUP

\* C10: GetFreeCount and GetAllCount with a non-null output pointer return
\* RTI_ERR_VLANTABLE_NOT_SETUP exactly when the dynamic window is
\* uninitialized, and RTI_OK whenever a dynamic buffer is installed.  (The
\* queries leave the window as they found it.)
C10_CountsNotSetupExactly ==
    (last.op \in {"GetFreeCount", "GetAllCount"} /\ last.ptr # NullPtr) =>
        /\ (last.ret = RTI_ERR_VLANTABLE_NOT_SETUP) <=> DynamicWindowUninitialized
        /\ DynamicTableActive => last.ret = RTI_OK

\* the active window lies inside the memory of the table it points into and
\* ends on a slot boundary
WindowInMemory ==
    /\ g_RTI_vlanTableEndPtr.off <= RecordSize * Alloc(g_RTI_vlanTableStartPtr.reg)
    /\ g_RTI_vlanTableEndPtr.off % RecordSize = 0

\* C11: IsRegister(d) returns RTI_OK if and only if d is non-null and some
\* occupied slot of the active window references a descriptor whose id is
\* d.id; in every other case, a window with empty slots included, it returns
\* RTI_ERR_INVALID_PARAM (and has no undefined read).  Stated for windows that
\* lie inside their table's memory and end on a slot boundary.
C11_IsRegisterExactly ==
    (last.op = "IsRegister" /\ WindowInMemory) =>
        last.ret = IF last.ref # NULL /\ Present(DescId(last.ref))
                   THEN RTI_OK
                   ELSE RTI_ERR_INVALID_PARAM

\* the calls C12 names as dynamic functions
DynamicFunctions == {"Register", "IsRegister", "GetFreeCount", "GetAllCount"}

UnregisterMatch(id) == UnregisterScan(g_RTI_vlanTableStartPtr.off, id)

\* C13: when Unregister(id) finds its first match at slot i of a set-up
\* dynamic table, it returns RTI_OK, every record at a slot j > i of the
\* window is afterwards at slot j - 1, the slots below i are unchanged,
\* usedCount is decremented by exactly 1 and the slot at the new usedCount is
\* empty.
C13_UnregisterCompacts ==
    [][(/\ DynamicTableActive
        /\ last'.op = "Unregister"
        /\ UnregisterMatch(last'.id) \in 0..(WindowSlots - 1))
       => LET i == UnregisterMatch(last'.id)
              reg == g_RTI_vlanTableStartPtr.reg
          IN  /\ last'.ret = RTI_OK
              /\ \A j \in (i + 1)..(WindowSlots - 1) : mem'[reg][j - 1] = mem[reg][j]
              /\ \A j \in 0..(i - 1) : mem'[reg][j] = mem[reg][j]
              /\ g_RTI_vlanRecordUsedCnt' = g_RTI_vlanRecordUsedCnt - 1
              /\ mem'[reg][g_RTI_vlanRecordUsedCnt'] = NULL]_vars

\* C14: in every state with a set-up dynamic table whose window lies inside
\* the buffer, Unregister(id) for an id that no occupied slot of the window
\* carries returns RTI_ERR_INVALID_PARAM; tables with empty slots after the
\* used prefix and tables with usedCount = 0 are among these states.
C14_UnregisterAbsentId ==
    [][(/\ last'.op = "Unregister"
        /\ DynamicTableActive
        /\ WindowInMemory
        /\ ~Present(last'.id))
       => last'.ret = RTI_ERR_INVALID_PARAM]_vars

\* the occupied slots of the active window are exactly the slots with index
\* in [0, usedCount) and every slot from usedCount on is empty
CompactPrefix ==
    \A i \in 0..(WindowSlots - 1) :
        /\ i < Alloc(g_RTI_vlanTableStartPtr.reg)
        /\ IF i < g_RTI_vlanRecordUsedCnt
           THEN WindowRecord(i) \in Refs
           ELSE WindowRecord(i) = NULL

\* every static-table slot holds its link-time record
StaticTableIntact == \A i \in 0..(staticN - 1) : mem["S"][i] = i + 1

\* C15: compaction invariant, in its inductive form. A Setup of a caller
\* buffer that returns RTI_OK while the static table holds its link-time
\* records leaves the occupied slots of the dynamic window exactly the slots
\* [0, usedCount) and every slot from usedCount on empty; and every Register
\* or Unregister call, successful or failing, on a dynamic table in that
\* shape leaves it in that shape.
C15_CompactionInvariant ==
    [][/\ (/\ last'.op = "Setup"
           /\ last'.ret = RTI_OK
           /\ last'.ptr.reg \in Buffers
           /\ StaticTableIntact)
          => CompactPrefix'
       /\ (/\ last'.op \in {"Register", "Unregister"}
           /\ DynamicTableActive
           /\ CompactPrefix)
          => CompactPrefix']_vars

\* the number of occupied slots of the active window that carry the id
Occurrences(id) ==
    Cardinality({i \in 0..(WindowSlots - 1) : Occupied(i) /\ DescId(WindowRecord(i)) = id})

\* C16: whenever Unregister(id) returned RTI_OK, an immediately following
\* Select(id) does not return RTI_OK.
C16_UnregisterThenSelectFails ==
    (last.op = "Unregister" /\ last.ret = RTI_OK) => SelectNow(last.id).ret # RTI_OK

\* the lowest-index occupied slot of the active window that carries the id
LowestSlot(id) ==
    CHOOSE i \in 0..(WindowSlots - 1) :
        /\ Occupied(i) /\ DescId(WindowRecord(i)) = id
        /\ \A j \in 0..(i - 1) : ~(Occupied(j) /\ DescId(WindowRecord(j)) = id)

\* no slot below the lowest one that carries the id holds a damaged record
\* (one that is neither empty nor a reference to a descriptor)
IntactBelowLowest(id) ==
    \A j \in 0..(LowestSlot(id) - 1) : WindowRecord(j) \in Refs \cup {NULL}

SavedTable == [i \in 0..(BufSlots - 1) |-> IF i = 0 THEN MaxStatic + 1 ELSE NULL]

\* the registry at start-up beside a caller buffer that holds a saved table
InitSavedTable ==
    /\ staticN \in {0, MaxStatic}
    /\ mem = [r \in Regions |->
                IF r = "S" THEN [i \in 0..(staticN - 1) |-> i + 1]
                ELSE SavedTable]
    /\ g_RTI_vlanTableStartPtr = StaticStart
    /\ g_RTI_vlanTableEndPtr = StaticEnd
    /\ g_RTI_vlanRecordUsedCnt = 0
    /\ last = Call("boot", NullPtr, 0, NULL, 0, RTI_OK, NoDesc, 0)
    /\ stopped = FALSE
    /\ repoints = 0
    /\ setups = 0
    /\ setupRun = SetupIdle
    /\ registerRun = [p \in Callers |-> RegisterIdle]

SpecSavedTable == InitSavedTable /\ [][Next]_vars

SlotAtUsedCount == mem[g_RTI_vlanTableStartPtr.reg][g_RTI_vlanRecordUsedCnt]

MutatingCalls == {"Setup", "Register", "Unregister", "ForceSet"}

\* C19: every call of Setup, Register, Unregister or ForceSet that returns an
\* error code leaves the window start, the window end, usedCount and every
\* slot of every table as they were before the call.
C19_NoPartialFailure ==
    [][(last'.op \in MutatingCalls /\ last'.ret \notin {RTI_OK, RTI_UNDEFINED})
       => UNCHANGED <<g_RTI_vlanTableStartPtr, g_RTI_vlanTableEndPtr,
                      g_RTI_vlanRecordUsedCnt, mem>>]_vars

\* a Setup has just been refused as too short on a dynamic table that holds
\* a record
C19_Witness ==
    /\ last.op = "Setup"
    /\ last.ret = RTI_ERR_VLANTABLE_TOO_SHORT
    /\ DynamicTableActive
    /\ g_RTI_vlanRecordUsedCnt >= 1
    /\ Occupied(0)

\* the calls C20 names
StaticFrameCalls == {"Select", "Register", "Unregister", "ForceSet", "Setup"}

\* no call so far supplied the static table as its buffer: the window is
\* still the one of start-up, or it lies in a caller buffer
NoStaticBufferSupplied ==
    \/ g_RTI_vlanTableStartPtr.reg = "S" /\ repoints = 0
    \/ DynamicTableActive

\* C20: while every static-table slot holds its link-time record, every
\* Select, Register, Unregister, ForceSet or Setup call whose buffer is not
\* the static table, an Unregister issued while the window is still the
\* static table included, has a defined outcome and leaves every static-table
\* slot at its link-time record.
C20_StaticTableImmutable ==
    [][(/\ last'.op \in StaticFrameCalls
        /\ last'.ptr.reg # "S"
        /\ NoStaticBufferSupplied
        /\ StaticTableIntact)
       => /\ StaticTableIntact'
          /\ g_RTI_vlanTableStartPtr.reg = "S" => last'.ret # RTI_UNDEFINED]_vars

\* C21: every ForceSet(start, sizeBytes) with a non-null start that returns
\* RTI_OK sets the window to [start, start + sizeBytes bytes), so the capacity
\* afterwards is sizeBytes / recordSize; and ForceSet(window start,
\* RTI_VLAN_VLANTABLE_SIZE(capacity)) leaves the window start and end as they
\* were.
C21_ForceSetWindowInBytes ==
    [][(last'.op = "ForceSet" /\ last'.ptr # NullPtr)
       => /\ last'.ret = RTI_OK
          /\ g_RTI_vlanTableStartPtr' = last'.ptr
          /\ g_RTI_vlanTableEndPtr' = Ptr(last'.ptr.reg, last'.ptr.off + last'.size)
          /\ Capacity' = last'.size \div RecordSize
          /\ (/\ last'.ptr = g_RTI_vlanTableStartPtr
              /\ last'.size = RTI_VLAN_VLANTABLE_SIZE(Capacity))
             => /\ g_RTI_vlanTableStartPtr' = g_RTI_vlanTableStartPtr
                /\ g_RTI_vlanTableEndPtr' = g_RTI_vlanTableEndPtr]_vars

\* C22: every ForceSet call leaves usedCount and every slot of every table,
\* the old one and the new one, as they were before the call.
C22_ForceSetOnlyMovesWindow ==
    [][last'.op = "ForceSet" => UNCHANGED <<g_RTI_vlanRecordUsedCnt, mem>>]_vars

\* a ForceSet has just repointed the window away from a dynamic table that
\* holds records, which are still in the buffer
C22_Witness ==
    /\ last.op = "ForceSet"
    /\ last.ret = RTI_OK
    /\ g_RTI_vlanTableStartPtr.reg = "S"
    /\ g_RTI_vlanRecordUsedCnt >= 2
    /\ \E i \in DOMAIN mem["A"] : mem["A"][i] \in DynRefs

\* the case of C23: the static table is empty and the dynamic table has a
\* capacity of 2 and holds 2 registered records
FullTableOfTwo ==
    /\ staticN = 0
    /\ DynamicTableActive
    /\ Capacity = 2
    /\ g_RTI_vlanRecordUsedCnt = 2
    /\ Occupied(0)
    /\ Occupied(1)

C24_UninitializedExactly ==
    RTI_VlanIsDynamicUninitialized <=> DynamicWindowUninitialized

(* ------------- RTI_VlanDynamicSetup interleaved with callers ------------- *)

\* RTI_VlanDynamicSetup statement by statement. SetupEnter runs its checks:
\* a refused call returns at once, an accepted one goes on with start,
\* sizeBytes and recordCntOld as its locals; oldStart keeps the window start
\* the call entered with.
SetupEnter(start, sizeBytes) ==
    /\ ~stopped
    /\ setupRun.pc = "idle"
    /\ LET recordCntOld == SetupRecordCntOld
       IN  IF start = NullPtr
           THEN /\ last' = Call("Setup", start, sizeBytes, NULL, 0,
                                RTI_ERR_INVALID_PARAM, NoDesc, 0)
                /\ UNCHANGED setupRun
           ELSE IF sizeBytes < RTI_VLAN_VLANTABLE_SIZE(recordCntOld)
           THEN /\ last' = Call("Setup", start, sizeBytes, NULL, 0,
                                RTI_ERR_VLANTABLE_TOO_SHORT, NoDesc, 0)
                /\ UNCHANGED setupRun
           ELSE /\ repoints < MaxRepoint
                /\ setupRun' = [pc |-> "checked", start |-> start,
                                sizeBytes |-> sizeBytes,
                                recordCntOld |-> recordCntOld,
                                oldStart |-> g_RTI_vlanTableStartPtr]
                /\ last' = Call("SetupEnter", start, sizeBytes, NULL, 0,
                                RTI_OK, NoDesc, 0)
    /\ UNCHANGED <<staticN, mem, g_RTI_vlanTableStartPtr, g_RTI_vlanTableEndPtr,
                   g_RTI_vlanRecordUsedCnt, stopped, repoints, setups, registerRun>>

\* memset(start, 0, sizeBytes); memcpy(start, g_RTI_vlanTableStartPtr, ...)
SetupFill ==
    /\ ~stopped
    /\ setupRun.pc = "checked"
    /\ LET full == setupRun.sizeBytes \div RecordSize
       IN  IF setupRun.recordCntOld > Alloc(g_RTI_vlanTableStartPtr.reg)
           THEN \* the memcpy reads past the old table's region
                /\ last' = Call("Setup", setupRun.start, setupRun.sizeBytes, NULL, 0,
                                RTI_UNDEFINED, NoDesc, 0)
                /\ stopped' = TRUE
                /\ UNCHANGED <<mem, setupRun>>
           ELSE /\ \E partial \in
                        (IF setupRun.sizeBytes % RecordSize # 0
                         THEN PartialZero(mem[setupRun.start.reg][full]) ELSE {NULL}) :
                      mem' = SetupMemory(setupRun.start, setupRun.sizeBytes,
                                         setupRun.recordCntOld, partial)
                /\ setupRun' = [setupRun EXCEPT !.pc = "filled"]
                /\ last' = Call("SetupFill", setupRun.start, setupRun.sizeBytes,
                                NULL, 0, RTI_OK, NoDesc, 0)
                /\ UNCHANGED stopped
    /\ UNCHANGED <<staticN, g_RTI_vlanTableStartPtr, g_RTI_vlanTableEndPtr,
                   g_RTI_vlanRecordUsedCnt, repoints, setups, registerRun>>

\* g_RTI_vlanTableStartPtr = start
SetupStoreStart ==
    /\ ~stopped
    /\ setupRun.pc = "filled"
    /\ g_RTI_vlanTableStartPtr' = setupRun.start
    /\ setupRun' = [setupRun EXCEPT !.pc = "startStored"]
    /\ last' = Call("SetupStoreStart", setupRun.start, setupRun.sizeBytes,
                    NULL, 0, RTI_OK, NoDesc, 0)
    /\ UNCHANGED <<staticN, mem, g_RTI_vlanTableEndPtr, g_RTI_vlanRecordUsedCnt,
                   stopped, repoints, setups, registerRun>>

\* g_RTI_vlanTableEndPtr = (RTI_VLAN_RECORD*)(start + sizeBytes)
SetupStoreEnd ==
    /\ ~stopped
    /\ setupRun.pc = "startStored"
    /\ g_RTI_vlanTableEndPtr' =
          Ptr(setupRun.start.reg, setupRun.start.off + setupRun.sizeBytes)
    /\ setupRun' = [setupRun EXCEPT !.pc = "endStored"]
    /\ last' = Call("SetupStoreEnd", setupRun.start, setupRun.sizeBytes,
                    NULL, 0, RTI_OK, NoDesc, 0)
    /\ UNCHANGED <<staticN, mem, g_RTI_vlanTableStartPtr, g_RTI_vlanRecordUsedCnt,
                   stopped, repoints, setups, registerRun>>

\* g_RTI_vlanRecordUsedCnt = recordCntOld; return RTI_OK
SetupStoreCount ==
    /\ ~stopped
    /\ setupRun.pc = "endStored"
    /\ g_RTI_vlanRecordUsedCnt' = setupRun.recordCntOld
    /\ setupRun' = SetupIdle
    /\ last' = Call("Setup", setupRun.start, setupRun.sizeBytes, NULL, 0,
                    RTI_OK, NoDesc, 0)
    /\ repoints' = repoints + 1
    /\ setups' = setups + 1
    /\ UNCHANGED <<staticN, mem, g_RTI_vlanTableStartPtr, g_RTI_vlanTableEndPtr,
                   stopped, registerRun>>

\* the calls C25 names as interleaved with a running Setup
ObserverCalls == {"Select", "Register", "Unregister", "GetFreeCount", "GetAllCount"}

\* a call that finds the window start in one table and the window end in
\* another: the comparison of the two pointers has no defined result
ObserveSplitWindow(op) ==
    /\ ~stopped
    /\ g_RTI_vlanTableStartPtr.reg # g_RTI_vlanTableEndPtr.reg
    /\ last' = Call(op, NullPtr, 0, NULL, 0, RTI_UNDEFINED, NoDesc, 0)
    /\ stopped' = TRUE
    /\ UNCHANGED <<staticN, mem, g_RTI_vlanTableStartPtr, g_RTI_vlanTableEndPtr,
                   g_RTI_vlanRecordUsedCnt, repoints, setups, setupRun, registerRun>>

\* the window start and end lie in the same table
WindowInOneTable == g_RTI_vlanTableStartPtr.reg = g_RTI_vlanTableEndPtr.reg

NextSetupInterleaved ==
    \/ \E start \in Starts :
         \E sizeBytes \in (IF start = NullPtr THEN {0} ELSE BufferSizes(start.reg)) :
            SetupEnter(start, sizeBytes)
    \/ SetupFill
    \/ SetupStoreStart
    \/ SetupStoreEnd
    \/ SetupStoreCount
    \/ \E op \in ObserverCalls : ObserveSplitWindow(op)
    \/ \E vlanId \in Ids : WindowInOneTable /\ Select(vlanId)
    \/ \E vlanDesc \in DynRefs \cup {NULL} : WindowInOneTable /\ Register(vlanDesc)
    \/ \E id \in Ids : WindowInOneTable /\ Unregister(id)
    \/ \E p \in {NullPtr, CountVar} : WindowInOneTable /\ GetFreeCount(p)
    \/ \E p \in {NullPtr, CountVar} : WindowInOneTable /\ GetAllCount(p)

SpecSetupInterleaved == Init /\ [][NextSetupInterleaved]_vars

\* the window end a running Setup is about to publish
SetupNewEnd == Ptr(setupRun.start.reg, setupRun.start.off + setupRun.sizeBytes)

\* a running Setup has published a part of its new state: the new window
\* start with the old window end, or the new window with the old usedCount
MixedState ==
    /\ g_RTI_vlanTableStartPtr # setupRun.oldStart
    /\ \/ /\ setupRun.pc = "startStored"
          /\ g_RTI_vlanTableEndPtr # SetupNewEnd
       \/ /\ setupRun.pc = "endStored"
          /\ g_RTI_vlanRecordUsedCnt # setupRun.recordCntOld

\* C25: no Select, Register, Unregister or count query that runs while a
\* Setup is in progress starts from a mixed state (the new window start with
\* the old window end, or the new window with the old usedCount).
C25_SetupPublishesAtomically ==
    [][(setupRun.pc # "idle" /\ last'.op \in ObserverCalls) => ~MixedState]_vars

(* ------------ RTI_VlanDynamicRegister interleaved with itself ------------ *)

\* RTI_VlanDynamicRegister read by read and write by write, for caller p, who
\* makes one such call. RegisterEnter runs the checks; a refused call returns
\* at once, and last keeps its code. registerRun[p].ret keeps the code an
\* accepted call returned.
RegisterEnter(p, vlanDesc) ==
    /\ ~stopped
    /\ registerRun[p].pc = "idle"
    /\ IF RegisterCheck(vlanDesc) = RTI_OK
       THEN /\ registerRun' = [registerRun EXCEPT ![p] =
                  [pc |-> "checked", vlanDesc |-> vlanDesc, index |-> 0, ret |-> RTI_OK]]
            /\ UNCHANGED last
       ELSE /\ last' = Call("RegisterEnter", NullPtr, 0, vlanDesc, 0,
                            RegisterCheck(vlanDesc), NoDesc, 0)
            /\ UNCHANGED registerRun
    /\ UNCHANGED <<staticN, mem, g_RTI_vlanTableStartPtr, g_RTI_vlanTableEndPtr,
                   g_RTI_vlanRecordUsedCnt, stopped, repoints, setups, setupRun>>

\* the read of g_RTI_vlanRecordUsedCnt in g_RTI_vlanRecordUsedCnt++
RegisterLoadIndex(p) ==
    /\ ~stopped
    /\ registerRun[p].pc = "checked"
    /\ registerRun' = [registerRun EXCEPT ![p].pc = "loaded",
                                          ![p].index = g_RTI_vlanRecordUsedCnt]
    /\ UNCHANGED <<staticN, mem, g_RTI_vlanTableStartPtr, g_RTI_vlanTableEndPtr,
                   g_RTI_vlanRecordUsedCnt, stopped, repoints, setups, setupRun, last>>

\* the write of g_RTI_vlanRecordUsedCnt in g_RTI_vlanRecordUsedCnt++; the
\* build is free to place it before or after the write of the slot
RegisterStoreCount(p) ==
    /\ ~stopped
    /\ registerRun[p].pc \in {"loaded", "slotStored"}
    /\ g_RTI_vlanRecordUsedCnt' = (registerRun[p].index + 1) % SizeMod
    /\ registerRun' = [registerRun EXCEPT ![p].pc =
                          IF registerRun[p].pc = "loaded" THEN "countStored"
                                                         ELSE "returned"]
    /\ UNCHANGED <<staticN, mem, g_RTI_vlanTableStartPtr, g_RTI_vlanTableEndPtr,
                   stopped, repoints, setups, setupRun, last>>

\* the write of g_RTI_vlanTableStartPtr[index] = vlanDesc
RegisterStoreSlot(p) ==
    /\ ~stopped
    /\ registerRun[p].pc \in {"loaded", "countStored"}
    /\ LET reg == g_RTI_vlanTableStartPtr.reg
       IN  IF registerRun[p].index >= Alloc(reg)
           THEN \* the slot written lies outside the region
                /\ registerRun' = [registerRun EXCEPT ![p].ret = RTI_UNDEFINED]
                /\ stopped' = TRUE
                /\ UNCHANGED mem
           ELSE /\ mem' = [mem EXCEPT ![reg][registerRun[p].index] =
                                          registerRun[p].vlanDesc]
                /\ registerRun' = [registerRun EXCEPT ![p].pc =
                                      IF registerRun[p].pc = "loaded" THEN "slotStored"
                                                                     ELSE "returned"]
                /\ UNCHANGED stopped
    /\ UNCHANGED <<staticN, g_RTI_vlanTableStartPtr, g_RTI_vlanTableEndPtr,
                   g_RTI_vlanRecordUsedCnt, repoints, setups, setupRun, last>>

\* the table the callers register in is set up in a caller buffer
NextRegisterInterleaved ==
    \/ \E r \in Buffers : \E sizeBytes \in BufferSizes(r) : Setup(Ptr(r, 0), sizeBytes)
    \/ \E vlanDesc \in DynRefs \cup {NULL} : Register(vlanDesc)
    \/ \E p \in Callers : \E vlanDesc \in DynRefs \cup {NULL} : RegisterEnter(p, vlanDesc)
    \/ \E p \in Callers : RegisterLoadIndex(p)
    \/ \E p \in Callers : RegisterStoreCount(p)
    \/ \E p \in Callers : RegisterStoreSlot(p)

SpecRegisterInterleaved == Init /\ [][NextRegisterInterleaved]_vars

\* every Register call so far ran as one atomic step
AllAtomic == \A p \in Callers : registerRun[p].pc = "idle"

\* descriptor d is stored in a slot of the window
Stored(d) ==
    \E i \in 0..(WindowSlots - 1) :
        i < Alloc(g_RTI_vlanTableStartPtr.reg) /\ WindowRecord(i) = d

\* C26: as long as every call runs as one atomic step, a successful Register
\* stores its descriptor in the slot at the old usedCount, which held no
\* record, leaves every other slot as it was and advances usedCount by one,
\* so every successful Register occupies a slot of its own.
C26_AtomicRegisterOwnSlot ==
    [][(AllAtomic' /\ last'.op = "Register" /\ last'.ret = RTI_OK)
       => LET reg == g_RTI_vlanTableStartPtr.reg
          IN  /\ mem[reg][g_RTI_vlanRecordUsedCnt] = NULL
              /\ mem'[reg][g_RTI_vlanRecordUsedCnt] = last'.ref
              /\ \A i \in DOMAIN mem[reg] :
                    i # g_RTI_vlanRecordUsedCnt => mem'[reg][i] = mem[reg][i]
              /\ g_RTI_vlanRecordUsedCnt' = g_RTI_vlanRecordUsedCnt + 1]_vars

\* two interleaved Register calls of different descriptors both returned
\* RTI_OK on the table of the one Setup, and only one descriptor is stored
C26_Witness ==
    /\ setups = 1
    /\ DynamicTableActive
    /\ \A p \in Callers : registerRun[p].pc = "returned" /\ registerRun[p].ret = RTI_OK
    /\ registerRun[1].vlanDesc # registerRun[2].vlanDesc
    /\ Stored(registerRun[1].vlanDesc) # Stored(registerRun[2].vlanDesc)

\* C27: in every reachable state usedCount lies within the active window,
\* 0 <= usedCount <= capacity (an underflow of the unsigned count shows as a
\* count above the capacity), and GetFreeCount reports no more than
\* GetAllCount. States behind a call without defined behaviour are left out.
C27_UsedCountWithinWindow ==
    ~stopped
    => /\ 0 <= g_RTI_vlanRecordUsedCnt
       /\ g_RTI_vlanRecordUsedCnt <= Capacity
       /\ (FreeNow.ret = RTI_OK /\ AllNow.ret = RTI_OK) => FreeNow.cnt <= AllNow.cnt

(* --------------------- the registry after a session --------------------- *)

\* the dynamic records of an earlier session, in the order registered
SessionRecords == [i \in 0..(BufSlots - 1) |-> MaxStatic + 1 + (i % 2)]

\* the registry after a session: a Setup of the whole caller buffer migrated
\* the static records, and Register calls added k dynamic records. repoints
\* counts the window moves from this state on.
InitAfterSession ==
    /\ staticN \in {0, MaxStatic}
    /\ \E k \in 0..(BufSlots - staticN) :
          /\ mem = [r \in Regions |->
                      IF r = "S" THEN [i \in 0..(staticN - 1) |-> i + 1]
                      ELSE [i \in 0..(BufSlots - 1) |->
                              IF i < staticN THEN i + 1
                              ELSE IF i < staticN + k THEN SessionRecords[i - staticN]
                              ELSE NULL]]
          /\ g_RTI_vlanRecordUsedCnt = staticN + k
    /\ g_RTI_vlanTableStartPtr = Ptr("A", 0)
    /\ g_RTI_vlanTableEndPtr = Ptr("A", RTI_VLAN_VLANTABLE_SIZE(BufSlots))
    /\ last = Call("boot", NullPtr, 0, NULL, 0, RTI_OK, NoDesc, 0)
    /\ stopped = FALSE
    /\ repoints = 0
    /\ setups = 1
    /\ setupRun = SetupIdle
    /\ registerRun = [p \in Callers |-> RegisterIdle]

SpecAfterSession == InitAfterSession /\ [][Next]_vars

\* the call that hands the window saved before the first Setup back to
\* ForceSet: the static table's address and its size in bytes
RestoreCall(call) ==
    /\ call.op = "ForceSet"
    /\ call.ret = RTI_OK
    /\ call.ptr = StaticStart
    /\ call.size = RTI_VLAN_VLANTABLE_SIZE(staticN)

\* the same statement for a Setup whose buffer is a caller buffer
ReusableWithCallerBuffer ==
    [][/\ RestoreCall(last')
          => /\ RTI_VlanIsDynamicUninitialized'
             /\ FreeNow'.ret = RTI_ERR_VLANTABLE_NOT_SETUP
             /\ AllNow'.ret = RTI_ERR_VLANTABLE_NOT_SETUP
       /\ (RestoreCall(last) /\ last'.op = "Setup" /\ last'.ret = RTI_OK /\ last'.ptr.reg \in Buffers)
          => /\ g_RTI_vlanRecordUsedCnt' = staticN
             /\ \A i \in 0..(BufSlots - 1) :
                   (i < Capacity' /\ i < Alloc(last'.ptr.reg))
                   => mem'[last'.ptr.reg][i] = (IF i < staticN THEN i + 1 ELSE NULL)]_vars

\* C28: once ForceSet has restored the window saved before the first Setup,
\* the registry reports itself as not set up, and the next successful Setup
\* migrates exactly the static records and sets usedCount to the static
\* record count, whatever the earlier session registered.
C28_ReusableAfterTeardown ==
    [][/\ RestoreCall(last')
          => /\ RTI_VlanIsDynamicUninitialized'
             /\ FreeNow'.ret = RTI_ERR_VLANTABLE_NOT_SETUP
             /\ AllNow'.ret = RTI_ERR_VLANTABLE_NOT_SETUP
       /\ (RestoreCall(last) /\ last'.op = "Setup" /\ last'.ret = RTI_OK)
          => /\ g_RTI_vlanRecordUsedCnt' = staticN
             /\ \A i \in 0..(BufSlots - 1) :
                   (i < Capacity' /\ i < Alloc(last'.ptr.reg))
                   => mem'[last'.ptr.reg][i] = (IF i < staticN THEN i + 1 ELSE NULL)]_vars

(* ----------------------------- read operations ----------------------------- *)

\* RTIDFX_VlanGetTableAddr(): the address returned
RTIDFX_VlanGetTableAddr == g_RTI_vlanTableStartPtr

\* RTIDFX_VlanGetTableRecordMaxCount(): the count returned
RTIDFX_VlanGetTableRecordMaxCount ==
    RTI_VlanGetRecordCount(g_RTI_vlanTableStartPtr, g_RTI_vlanTableEndPtr)

GetTableAddr ==
    /\ ~stopped
    /\ last' = Call("GetTableAddr", RTIDFX_VlanGetTableAddr, 0, NULL, 0, RTI_OK, NoDesc, 0)
    /\ UNCHANGED <<setupRun, registerRun>>
    /\ UNCHANGED <<setups, staticN, mem, g_RTI_vlanTableStartPtr, g_RTI_vlanTableEndPtr,
                   g_RTI_vlanRecordUsedCnt, stopped, repoints>>

GetTableRecordMaxCount ==
    /\ ~stopped
    /\ last' = Call("GetTableRecordMaxCount", NullPtr, 0, NULL, 0, RTI_OK, NoDesc,
                    RTIDFX_VlanGetTableRecordMaxCount)
    /\ UNCHANGED <<setupRun, registerRun>>
    /\ UNCHANGED <<setups, staticN, mem, g_RTI_vlanTableStartPtr, g_RTI_vlanTableEndPtr,
                   g_RTI_vlanRecordUsedCnt, stopped, repoints>>

NextWithTableQueries ==
    \/ Next
    \/ GetTableAddr
    \/ GetTableRecordMaxCount

SpecWithTableQueries == Init /\ [][NextWithTableQueries]_vars

\* the operations that only read the registry
ReadCalls ==
    {"Select", "IsRegister", "GetFreeCount", "GetAllCount",
     "GetTableAddr", "GetTableRecordMaxCount"}

\* C29: no call of RTIPriv_VlanSelect, RTI_VlanDynamicIsRegister,
\* RTI_VlanDynamicGetFreeCount, RTI_VlanDynamicGetAllCount,
\* RTIDFX_VlanGetTableAddr or RTIDFX_VlanGetTableRecordMaxCount changes the
\* window start, the window end, usedCount or a slot, and Select writes its
\* output descriptor only when it returns RTI_OK.
C29_ReadCallsChangeNothing ==
    [][last'.op \in ReadCalls
       => /\ UNCHANGED <<g_RTI_vlanTableStartPtr, g_RTI_vlanTableEndPtr,
                         g_RTI_vlanRecordUsedCnt, mem>>
          /\ (last'.op = "Select" /\ last'.out # NoDesc) => last'.ret = RTI_OK]_vars

\* a Select that fails on a dynamic table holding a record of another id has
\* written no descriptor
C29_Witness ==
    /\ last.op = "Select"
    /\ last.ret = RTI_ERR_INVALID_PARAM
    /\ last.out = NoDesc
    /\ DynamicTableActive
    /\ g_RTI_vlanRecordUsedCnt >= 1
    /\ Occupied(0)

====
